---- MODULE Spec2Model ----
(***************************************************************************)
(* Failure state machine of the spider size simulator.                     *)
(*                                                                         *)
(* FailureEvent objects live in a heap and a history is an array of        *)
(* references into it, as in the TypeScript source: computeFailureState    *)
(* copies the array ([...previousFailureHistory]) but not the objects, so  *)
(* the flags it flips are flipped in the objects the caller's array holds. *)
(*                                                                         *)
(* Proxies are counted in hundredths (0.35 is 35).                         *)
(*                                                                         *)
(* The scaling model (calculations.ts) follows the failure state machine;  *)
(* how its numbers are held is described where it starts.                  *)
(***************************************************************************)
EXTENDS Integers, Sequences, FiniteSets, TLC

\* ------------------------------------------------------------------ bounds
\* longest history a session of direct calls is followed to
MaxHistory == 2
\* longest history a session of evaluations is followed to
MaxEvalHistory == 4
\* longest currentFailureIds list handed to computeFailureState directly
MaxIds == 2

\* longest history the App is followed to
MaxAppHistory == 3

\* longest history the effect loop is followed to under fairness
MaxEffectHistory == 2

\* -------------------------------------------------------- failure catalog
Subsystems == <<"respiration", "hydraulics", "exoskeleton", "locomotion">>

FailureSeverity == {"soft", "hard", "catastrophic"}

\* proxyThreshold of every catalog entry, 0.35
ProxyThreshold == 35

\* variant: the exoskeleton entry is filed under hydraulics
FAILURE_MODES_SharedSubsystem ==
  [ OXYGEN_DIFFUSION_FAILURE |->
      [id |-> "OXYGEN_DIFFUSION_FAILURE", subsystem |-> "respiration",
       severity |-> "catastrophic", proxyThreshold |-> ProxyThreshold],
    HYDRAULIC_EXTENSION_FAILURE |->
      [id |-> "HYDRAULIC_EXTENSION_FAILURE", subsystem |-> "hydraulics",
       severity |-> "hard", proxyThreshold |-> ProxyThreshold],
    EXOSKELETON_BUCKLING_FAILURE |->
      [id |-> "EXOSKELETON_BUCKLING_FAILURE", subsystem |-> "hydraulics",
       severity |-> "catastrophic", proxyThreshold |-> ProxyThreshold],
    LOCOMOTION_ENERGY_FAILURE |->
      [id |-> "LOCOMOTION_ENERGY_FAILURE", subsystem |-> "locomotion",
       severity |-> "hard", proxyThreshold |-> ProxyThreshold] ]

FAILURE_MODES ==
  [ OXYGEN_DIFFUSION_FAILURE |->
      [id |-> "OXYGEN_DIFFUSION_FAILURE", subsystem |-> "respiration",
       severity |-> "catastrophic", proxyThreshold |-> ProxyThreshold],
    HYDRAULIC_EXTENSION_FAILURE |->
      [id |-> "HYDRAULIC_EXTENSION_FAILURE", subsystem |-> "hydraulics",
       severity |-> "hard", proxyThreshold |-> ProxyThreshold],
    EXOSKELETON_BUCKLING_FAILURE |->
      [id |-> "EXOSKELETON_BUCKLING_FAILURE", subsystem |-> "exoskeleton",
       severity |-> "catastrophic", proxyThreshold |-> ProxyThreshold],
    LOCOMOTION_ENERGY_FAILURE |->
      [id |-> "LOCOMOTION_ENERGY_FAILURE", subsystem |-> "locomotion",
       severity |-> "hard", proxyThreshold |-> ProxyThreshold] ]

CatalogIds == DOMAIN FAILURE_MODES

\* The shipped catalog has no soft entry, while FailureSeverity and the
\* resolution loop of computeFailureState provide for one.  A session runs
\* with the shipped catalog or with SoftCatalog, the shipped catalog with the
\* severity of one hard entry set to soft, which has all three severities.
SoftId == "LOCOMOTION_ENERGY_FAILURE"

SoftCatalog == [FAILURE_MODES EXCEPT ![SoftId].severity = "soft"]

Catalogs == {FAILURE_MODES, SoftCatalog}

\* an id detection never produces and no catalog defines
UnknownId == "UNKNOWN_FAILURE"

\* variant: every entry is read as soft
SeverityOfAllSoft(catalog, failureId) == "soft"

\* FAILURE_MODES[failureId]?.severity: undefined on a catalog miss
SeverityOf(catalog, failureId) ==
  IF failureId \in DOMAIN catalog THEN catalog[failureId].severity
                                  ELSE "undefined"

\* ----------------------------------------------------------------- state
VARIABLES
  modes,                   \* the catalog of this session
  heap,                    \* FailureEvent objects, a reference is an index
  failureHistory,          \* the session's history: references, in order
  bodyLength,              \* the session's body length, in millimetres
  now,                     \* the clock read by Date.now()
  called,                  \* TRUE once computeFailureState has been called
  currentFailureIds,       \* the ids the last call was given
  failureState,            \* the FailureState the last call returned
  applied,                 \* a function of the scaling model, its arguments
                           \* and, once it has run, its result
  modelOutput,             \* App: the proxies and legacy flags of computeModel
  selectedFailure,         \* App: the event the modal shows, or Null
  suppressedFailures,      \* App: the ids marked "don't show again"
  effectDue,               \* App: the failure-detection effect is scheduled
  updates                  \* App: calls of setFailureHistory since the last
                           \* parameter change: 0, 1 or 2 for more than one

\* the state of App next to the history
appVars == <<modelOutput, selectedFailure, suppressedFailures, effectDue, updates>>

vars == <<modes, heap, failureHistory, bodyLength, now, called,
          currentFailureIds, failureState, applied,
          modelOutput, selectedFailure, suppressedFailures, effectDue, updates>>

Range(s) == {s[i] : i \in DOMAIN s}

\* ---------------------------------------------------------- detection
isProxyInFailure(proxyValue, threshold) == proxyValue < threshold

\* the id pushed for one subsystem, or nothing
DetectOne(proxies, failureId) ==
  IF isProxyInFailure(proxies[FAILURE_MODES[failureId].subsystem],
                      FAILURE_MODES[failureId].proxyThreshold)
  THEN <<failureId>> ELSE <<>>

\* variant: the exoskeleton is checked before the hydraulics
detectFailuresExoskeletonFirst(proxies) ==
  DetectOne(proxies, "OXYGEN_DIFFUSION_FAILURE")
    \o DetectOne(proxies, "EXOSKELETON_BUCKLING_FAILURE")
    \o DetectOne(proxies, "HYDRAULIC_EXTENSION_FAILURE")
    \o DetectOne(proxies, "LOCOMOTION_ENERGY_FAILURE")

detectFailures(proxies) ==
  DetectOne(proxies, "OXYGEN_DIFFUSION_FAILURE")
    \o DetectOne(proxies, "HYDRAULIC_EXTENSION_FAILURE")
    \o DetectOne(proxies, "EXOSKELETON_BUCKLING_FAILURE")
    \o DetectOne(proxies, "LOCOMOTION_ENERGY_FAILURE")

\* ------------------------------------------------------- legacy flags
\* thresholds of the legacy flags, 0.35 each, in hundredths
FAILURE_THRESHOLDS ==
  [respiration |-> 35, hydraulics |-> 35, exoskeleton |-> 35, locomotion |-> 35]

\* variant: a flag stays up while the history holds an active event of a
\* failure of its subsystem
getFailureModesLatched(proxies) ==
  [i \in DOMAIN Subsystems |->
     [key |-> Subsystems[i],
      active |->
        \/ proxies[Subsystems[i]] < FAILURE_THRESHOLDS[Subsystems[i]]
        \/ \E r \in Range(failureHistory) :
             /\ heap[r].isActive
             /\ heap[r].failureId \in DOMAIN modes
             /\ modes[heap[r].failureId].subsystem = Subsystems[i]]]

\* variant: a proxy at its threshold counts as failed
getFailureModesAtOrBelow(proxies) ==
  [i \in DOMAIN Subsystems |->
     [key |-> Subsystems[i],
      active |-> proxies[Subsystems[i]] <= FAILURE_THRESHOLDS[Subsystems[i]]]]

\* the four flags of a ModelOutput, in the order respiration, hydraulics,
\* exoskeleton, locomotion; proxies in hundredths
getFailureModes(proxies) ==
  <<[key |-> "respiration",
     active |-> proxies.respiration < FAILURE_THRESHOLDS.respiration],
    [key |-> "hydraulics",
     active |-> proxies.hydraulics < FAILURE_THRESHOLDS.hydraulics],
    [key |-> "exoskeleton",
     active |-> proxies.exoskeleton < FAILURE_THRESHOLDS.exoskeleton],
    [key |-> "locomotion",
     active |-> proxies.locomotion < FAILURE_THRESHOLDS.locomotion]>>

\* ------------------------------------------------- computeFailureState
\* variant: the filter on isActive is missing
previousIdsUnfiltered(h, previous) ==
  {h[previous[i]].failureId : i \in DOMAIN previous}

\* variant: the filter keeps the events that are no longer active
previousIdsOfInactive(h, previous) ==
  {h[previous[i]].failureId : i \in {j \in DOMAIN previous : ~h[previous[j]].isActive}}

\* new Set(previousFailureHistory.filter(f => f.isActive).map(f => f.failureId))
previousActiveIds(h, previous) ==
  {h[previous[i]].failureId : i \in {j \in DOMAIN previous : h[previous[j]].isActive}}

\* variant: size and scale are stored in each other's field
NewFailureSwapped(catalog, failureId, size, scale, t) ==
  [failureId |-> failureId,
   triggeredAtSize |-> scale,
   triggeredAtScale |-> size,
   timestamp |-> t,
   isActive |-> TRUE,
   isResolved |-> FALSE,
   isIrreversible |-> (SeverityOf(catalog, failureId) = "catastrophic")]

\* variant: every severity but soft counts as irreversible
NewFailureNotSoft(catalog, failureId, size, scale, t) ==
  [failureId |-> failureId,
   triggeredAtSize |-> size,
   triggeredAtScale |-> scale,
   timestamp |-> t,
   isActive |-> TRUE,
   isResolved |-> FALSE,
   isIrreversible |-> (SeverityOf(catalog, failureId) # "soft")]

\* the object literal of the trigger loop
NewFailure(catalog, failureId, size, scale, t) ==
  [failureId |-> failureId,
   triggeredAtSize |-> size,
   triggeredAtScale |-> scale,
   timestamp |-> t,
   isActive |-> TRUE,
   isResolved |-> FALSE,
   isIrreversible |-> (SeverityOf(catalog, failureId) = "catastrophic")]

\* variant: new events are put in front (unshift)
UnshiftAll(history, refs) == refs \o history

\* updatedHistory after the pushes of the trigger loop
PushAll(history, refs) == history \o refs

\* variant: an id the catalog does not define is skipped
TriggerNewSkippingMisses(catalog, h, ids, previous, size, scale, t) ==
  LET toTrigger == SelectSeq(ids, LAMBDA f : /\ f \notin previousActiveIds(h, previous)
                                             /\ f \in DOMAIN catalog)
      created   == [i \in 1..Len(toTrigger) |->
                      NewFailure(catalog, toTrigger[i], size, scale, t)]
      refs      == [i \in 1..Len(toTrigger) |-> Len(h) + i]
  IN  [heap |-> h \o created,
       newlyTriggeredFailures |-> refs,
       updatedHistory |-> PushAll(previous, refs)]

\* variant: an event that is still failing has its snapshot brought up to date
TriggerNewRefreshing(catalog, h, ids, previous, size, scale, t) ==
  LET toTrigger == SelectSeq(ids, LAMBDA f : f \notin previousActiveIds(h, previous))
      created   == [i \in 1..Len(toTrigger) |->
                      NewFailure(catalog, toTrigger[i], size, scale, t)]
      refs      == [i \in 1..Len(toTrigger) |-> Len(h) + i]
      refreshed == [r \in DOMAIN h |->
                      IF h[r].isActive /\ h[r].failureId \in Range(ids)
                      THEN [h[r] EXCEPT !.triggeredAtSize = size,
                                        !.triggeredAtScale = scale,
                                        !.timestamp = t]
                      ELSE h[r]]
  IN  [heap |-> refreshed \o created,
       newlyTriggeredFailures |-> refs,
       updatedHistory |-> PushAll(previous, refs)]

\* variant: the test against previousActiveIds is missing
TriggerNewAlways(catalog, h, ids, previous, size, scale, t) ==
  LET created   == [i \in 1..Len(ids) |->
                      NewFailure(catalog, ids[i], size, scale, t)]
      refs      == [i \in 1..Len(ids) |-> Len(h) + i]
  IN  [heap |-> h \o created,
       newlyTriggeredFailures |-> refs,
       updatedHistory |-> PushAll(previous, refs)]

\* The trigger loop: one new object for every element of currentFailureIds
\* that is not in previousActiveIds (a set computed once, before the loop).
TriggerNew(catalog, h, ids, previous, size, scale, t) ==
  LET toTrigger == SelectSeq(ids, LAMBDA f : f \notin previousActiveIds(h, previous))
      created   == [i \in 1..Len(toTrigger) |->
                      NewFailure(catalog, toTrigger[i], size, scale, t)]
      refs      == [i \in 1..Len(toTrigger) |-> Len(h) + i]
  IN  [heap |-> h \o created,
       newlyTriggeredFailures |-> refs,
       updatedHistory |-> PushAll(previous, refs)]

\* variant: only catastrophic failures are latched
ShouldResolveHardToo(catalog, failure, currentFailureSet) ==
  /\ failure.isActive
  /\ failure.failureId \notin currentFailureSet
  /\ SeverityOf(catalog, failure.failureId) \in {"soft", "hard"}

\* variant: the test against the current failures is missing
ShouldResolveWhileFailing(catalog, failure, currentFailureSet) ==
  /\ failure.isActive
  /\ SeverityOf(catalog, failure.failureId) = "soft"

\* variant: the severity is not looked at
ShouldResolveAnySeverity(catalog, failure, currentFailureSet) ==
  /\ failure.isActive
  /\ failure.failureId \notin currentFailureSet

\* the condition under which the resolution loop flips an event
ShouldResolve(catalog, failure, currentFailureSet) ==
  /\ failure.isActive
  /\ failure.failureId \notin currentFailureSet
  /\ SeverityOf(catalog, failure.failureId) = "soft"

\* variant: isActive is left as it was
ResolvedStillActive(failure) == [failure EXCEPT !.isResolved = TRUE]

\* failure.isActive = false; failure.isResolved = true
Resolved(failure) == [failure EXCEPT !.isActive = FALSE, !.isResolved = TRUE]

\* The resolution loop writes into the objects updatedHistory refers to.
ResolveRecovered(catalog, h, updatedHistory, ids) ==
  [r \in DOMAIN h |->
     IF r \in Range(updatedHistory) /\ ShouldResolve(catalog, h[r], Range(ids))
     THEN Resolved(h[r]) ELSE h[r]]

computeFailureState(catalog, h, ids, previous, size, scale, t) ==
  LET triggered == TriggerNew(catalog, h, ids, previous, size, scale, t)
      h2        == ResolveRecovered(catalog, triggered.heap,
                                    triggered.updatedHistory, ids)
  IN  [heap |-> h2,
       activeFailures |->
         SelectSeq(triggered.updatedHistory,
                   LAMBDA r : h2[r].isActive \/ h2[r].isIrreversible),
       newlyTriggeredFailures |-> triggered.newlyTriggeredFailures,
       failureHistory |-> triggered.updatedHistory]

\* ---------------------------------------------------------------- inputs
RECURSIVE SeqsUpTo(_, _)
SeqsUpTo(S, n) ==
  IF n = 0 THEN {<<>>}
  ELSE LET shorter == SeqsUpTo(S, n - 1)
       IN  shorter \cup {Append(s, x) : s \in shorter, x \in S}

\* ids handed to computeFailureState directly: a catastrophic one, the one
\* that is hard in the shipped catalog and soft in SoftCatalog, and one no
\* catalog defines
CallIds == {"OXYGEN_DIFFUSION_FAILURE", SoftId, UnknownId}

\* currentFailureIds is a string[]: any list, repeats and unknown ids included
IdLists == SeqsUpTo(CallIds, MaxIds)

\* a proxy below the threshold and one exactly at it
ProxyValues == {ProxyThreshold - 1, ProxyThreshold}

ProxyInputs == [Range(Subsystems) -> ProxyValues]

\* baselineLength of the house spider preset, in millimetres
BaselineLength == 8

\* computeModel: scaleFactor = bodyLength / baselineLength
scaleFactor(length, baselineLength) == length \div baselineLength

\* body lengths in millimetres: the baseline and twice the baseline
BodyLengths == {8, 16}

\* readings of the clock (Date.now())
Instants == {0, 1}

\* ----------------------------------------------------------------- actions
NoState == [activeFailures |-> <<>>, newlyTriggeredFailures |-> <<>>,
            failureHistory |-> <<>>]

\* no function of the scaling model is being followed
NotApplied == [fn |-> "none", args |-> <<>>, done |-> FALSE, result |-> <<>>]

\* selectedFailure when no modal is shown (null)
Null == 0

\* what App reads of the ModelOutput computed for its inputs: the proxies,
\* in hundredths, and the legacy flags computeModel derives from them
ModelOutputOf(proxies) ==
  [proxies |-> proxies, failureModes |-> getFailureModes(proxies)]

\* every proxy is 1.0 at the baseline length App starts at
BaselineProxies == [k \in Range(Subsystems) |-> 100]

\* App as mounted: no modal, nothing suppressed, the effect about to run
\* for the first time
InitAppState ==
  /\ modelOutput = ModelOutputOf(BaselineProxies)
  /\ selectedFailure = Null
  /\ suppressedFailures = {}
  /\ effectDue = TRUE
  /\ updates = 0

Init ==
  /\ modes \in Catalogs
  /\ heap = <<>>
  /\ failureHistory = <<>>
  /\ bodyLength = BaselineLength
  /\ now = 0
  /\ called = FALSE
  /\ currentFailureIds = <<>>
  /\ failureState = NoState
  /\ applied = NotApplied
  /\ InitAppState

\* One call of computeFailureState on the session's history, at the
\* session's body length and the scale factor that goes with it; the caller
\* keeps the returned history for the next call.
Invoke(ids, maxLen) ==
  \E r \in {computeFailureState(modes, heap, ids, failureHistory, bodyLength,
                                scaleFactor(bodyLength, BaselineLength), now)} :
      /\ Len(r.failureHistory) <= maxLen
      /\ heap' = r.heap
      /\ failureHistory' = r.failureHistory
      /\ called' = TRUE
      /\ currentFailureIds' = ids
      /\ failureState' = [activeFailures |-> r.activeFailures,
                          newlyTriggeredFailures |-> r.newlyTriggeredFailures,
                          failureHistory |-> r.failureHistory]
      /\ UNCHANGED <<modes, bodyLength, now, applied>>
      /\ UNCHANGED appVars

\* computeFailureState called with an arbitrary list of ids
Call == \E ids \in IdLists : Invoke(ids, MaxHistory)

\* one evaluation: detectFailures on the proxies, then computeFailureState
Evaluate == \E proxies \in ProxyInputs : Invoke(detectFailures(proxies), MaxEvalHistory)

\* the size slider moves
SetBodyLength ==
  /\ \E length \in BodyLengths \ {bodyLength} : bodyLength' = length
  /\ UNCHANGED <<modes, heap, failureHistory, now, called, currentFailureIds,
                 failureState, applied>>
  /\ UNCHANGED appVars

\* time passes between calls
Tick ==
  /\ \E t \in Instants : t > now /\ now' = t
  /\ UNCHANGED <<modes, heap, failureHistory, bodyLength, called,
                 currentFailureIds, failureState, applied>>
  /\ UNCHANGED appVars

\* sessions of direct calls
NextCall == Call \/ SetBodyLength \/ Tick

SpecCall == Init /\ [][NextCall]_vars

\* sessions of evaluations, which run with the shipped catalog
InitEval == Init /\ modes = FAILURE_MODES

NextEval == Evaluate \/ SetBodyLength

SpecEval == InitEval /\ [][NextEval]_vars

\* ------------------------------------------------------------------- App
\* a catalog whose first entry is soft, so that it can recur
SoftFirstCatalog ==
  [FAILURE_MODES EXCEPT !["OXYGEN_DIFFUSION_FAILURE"].severity = "soft"]

AppCatalogs == {FAILURE_MODES, SoftFirstCatalog}

\* variant: setFailureHistory whenever the returned array is another array
\* than the state's, which it always is
HistoryDiffersByIdentity(h, returned, kept) == TRUE

\* the test that guards setFailureHistory: the lengths differ, or some
\* event of the returned history differs in isActive or isResolved from the
\* one at its place in the state's history (no such place counts as differing)
HistoryDiffers(h, returned, kept) ==
  \/ Len(returned) # Len(kept)
  \/ \E i \in DOMAIN returned :
       \/ i \notin DOMAIN kept
       \/ h[returned[i]].isActive # h[kept[i]].isActive
       \/ h[returned[i]].isResolved # h[kept[i]].isResolved

\* A slider, the preset or the mode changes: the render that follows holds a
\* new modelOutput, which schedules the effect. Handlers run between
\* renders, after the effects of the last one. The change is followed
\* through the proxies it leads to; the body length that goes into the
\* snapshots of new events is followed in the sessions of SpecEval. A
\* session is followed while its history stays within maxLen events.
SetParameters(inputs, maxLen) ==
  /\ ~effectDue
  /\ \E proxies \in inputs :
       /\ Len(computeFailureState(modes, heap, detectFailures(proxies),
                                  failureHistory, bodyLength,
                                  scaleFactor(bodyLength, BaselineLength),
                                  now).failureHistory) <= maxLen
       /\ modelOutput' = ModelOutputOf(proxies)
  /\ effectDue' = TRUE
  /\ updates' = 0
  /\ UNCHANGED <<modes, heap, failureHistory, bodyLength, now, called,
                 currentFailureIds, failureState, applied, selectedFailure,
                 suppressedFailures>>

\* the proxies of sessions in which locomotion stays at its threshold
\* and so never fails
ModalProxyInputs == {proxies \in ProxyInputs : proxies.locomotion = ProxyThreshold}

ChangeParameters == SetParameters(ModalProxyInputs, MaxAppHistory)

\* a parameter change early in a session
ChangeEarly == SetParameters(ProxyInputs, MaxEffectHistory)

\* variant: the modal opens for the first newly triggered failure that is
\* not suppressed
SelectedAfterFirstUnsuppressed(h, newly, suppressed, selected) ==
  LET shown == SelectSeq(newly, LAMBDA r : h[r].failureId \notin suppressed)
  IN  IF shown # <<>> THEN shown[1] ELSE selected

\* selectedFailure after the effect's look at newlyTriggeredFailures:
\* setSelectedFailure(newlyTriggeredFailures[0]) unless its id is suppressed
SelectedAfter(h, newly, suppressed, selected) ==
  IF newly # <<>> /\ h[newly[1]].failureId \notin suppressed
  THEN newly[1] ELSE selected

\* One run of the failure-detection effect. The objects of the history are
\* written by computeFailureState whether or not setFailureHistory follows;
\* setFailureHistory changes a dependency of the effect, which schedules it
\* again.
RunEffect ==
  /\ effectDue
  /\ \E r \in {computeFailureState(modes, heap, detectFailures(modelOutput.proxies),
                                    failureHistory, bodyLength,
                                    scaleFactor(bodyLength, BaselineLength), now)} :
       LET newly   == r.newlyTriggeredFailures
           differs == HistoryDiffers(r.heap, r.failureHistory, failureHistory)
       IN  /\ heap' = r.heap
           /\ selectedFailure' =
                SelectedAfter(r.heap, newly, suppressedFailures, selectedFailure)
           /\ failureHistory' = IF differs THEN r.failureHistory ELSE failureHistory
           /\ effectDue' = differs
           /\ updates' = IF ~differs THEN updates
                         ELSE IF updates = 0 THEN 1 ELSE 2
           /\ called' = TRUE
           /\ currentFailureIds' = detectFailures(modelOutput.proxies)
           /\ failureState' = [activeFailures |-> r.activeFailures,
                               newlyTriggeredFailures |-> r.newlyTriggeredFailures,
                               failureHistory |-> r.failureHistory]
  /\ UNCHANGED <<modes, bodyLength, now, applied, modelOutput, suppressedFailures>>

\* an entry of the failure panel is clicked
HandleFailureClick ==
  /\ ~effectDue
  /\ \E failure \in Range(failureHistory) : selectedFailure' = failure
  /\ UNCHANGED <<modes, heap, failureHistory, bodyLength, now, called,
                 currentFailureIds, failureState, applied, modelOutput,
                 suppressedFailures, effectDue, updates>>

\* The modal is closed, with or without "don't show again" ticked;
\* handleSuppressFailure stores a new Set, a dependency of the effect.
HandleClose ==
  /\ ~effectDue
  /\ selectedFailure # Null
  /\ \E dontShowAgain \in BOOLEAN :
       /\ suppressedFailures' =
            IF dontShowAgain
            THEN suppressedFailures \cup {heap[selectedFailure].failureId}
            ELSE suppressedFailures
       /\ effectDue' = dontShowAgain
  /\ selectedFailure' = Null
  /\ UNCHANGED <<modes, heap, failureHistory, bodyLength, now, called,
                 currentFailureIds, failureState, applied, modelOutput, updates>>

InitApp ==
  /\ modes \in AppCatalogs
  /\ heap = <<>>
  /\ failureHistory = <<>>
  /\ bodyLength = BaselineLength
  /\ now = 0
  /\ called = FALSE
  /\ currentFailureIds = <<>>
  /\ failureState = NoState
  /\ applied = NotApplied
  /\ InitAppState

NextApp == ChangeParameters \/ RunEffect \/ HandleFailureClick \/ HandleClose

SpecApp == InitApp /\ [][NextApp]_vars

\* the effect loop alone: parameter changes and the runs of the effect
NextEffect == ChangeEarly \/ RunEffect

SpecEffect == InitApp /\ [][NextEffect]_vars

\* an effect that is scheduled runs
FairEffect == SpecEffect /\ WF_vars(RunEffect)

\* ------------------------------------------------------- claim vocabulary
\* a step that is a call of computeFailureState (the slider and the clock
\* are the only other things that move)
CallStep == called' /\ bodyLength' = bodyLength /\ now' = now

\* ids with an active event in history hist, read in heap h
ActiveIdsIn(h, hist) == {h[r].failureId : r \in {q \in Range(hist) : h[q].isActive}}

\* the references a step added at the end of the session's history
Appended == SubSeq(failureHistory', Len(failureHistory) + 1, Len(failureHistory'))

Latching == {"hard", "catastrophic"}

\* ----------------------------------------------------------------- C1
\* C1: an event whose catalog severity is hard or catastrophic is active and
\* not resolved in every state of a session, whatever ids the calls passed.
C1_Latched ==
  \A r \in DOMAIN heap :
    SeverityOf(modes, heap[r].failureId) \in Latching
      => heap[r].isActive /\ ~heap[r].isResolved

\* a call with the empty list (full recovery) that found a hard and a
\* catastrophic event in the history
C1_Witness ==
  /\ called
  /\ currentFailureIds = <<>>
  /\ \E r \in Range(failureHistory) : SeverityOf(modes, heap[r].failureId) = "hard"
  /\ \E r \in Range(failureHistory) :
       SeverityOf(modes, heap[r].failureId) = "catastrophic"

\* ----------------------------------------------------------------- C2
\* C2: an event becomes resolved in a step exactly when the step is a call,
\* the event was active before it, its severity is soft and its id is not
\* among the ids passed; it is then no longer active; and no event of another
\* severity is ever resolved or inactive.
C2_SoftOnlyResolution ==
  [][ \A r \in DOMAIN heap' :
        LET before == IF r \in DOMAIN heap THEN heap[r]
                      ELSE [heap'[r] EXCEPT !.isActive = FALSE, !.isResolved = FALSE]
        IN  /\ (heap'[r].isResolved /\ ~before.isResolved)
                 <=> /\ CallStep
                     /\ before.isActive
                     /\ SeverityOf(modes, heap'[r].failureId) = "soft"
                     /\ heap'[r].failureId \notin Range(currentFailureIds')
            /\ heap'[r].isResolved <=> ~heap'[r].isActive
            /\ heap'[r].isResolved => SeverityOf(modes, heap'[r].failureId) = "soft"
    ]_vars

\* a soft event resolved by a call that did not list its id, next to an
\* event of another severity the same call left active
C2_Witness ==
  /\ called
  /\ \E r \in Range(failureHistory) :
       /\ heap[r].isResolved
       /\ heap[r].failureId \notin Range(currentFailureIds)
  /\ \E r \in Range(failureHistory) :
       /\ heap[r].isActive
       /\ heap[r].failureId \notin Range(currentFailureIds)

\* ----------------------------------------------------------------- C3
\* C3: a call appends an event for id f exactly when f is among the ids
\* passed and the prior history holds no active event of f; the appended
\* events are active, not resolved, carry the size and scale of the call,
\* and are the events reported in newlyTriggeredFailures.
C3_TriggerCondition ==
  [][ CallStep =>
        /\ \A f \in CallIds \cup CatalogIds :
             (\E i \in DOMAIN Appended : heap'[Appended[i]].failureId = f)
               <=> /\ f \in Range(currentFailureIds')
                   /\ f \notin ActiveIdsIn(heap, failureHistory)
        /\ \A i \in DOMAIN Appended :
             /\ Appended[i] \notin DOMAIN heap
             /\ heap'[Appended[i]].isActive
             /\ ~heap'[Appended[i]].isResolved
             /\ heap'[Appended[i]].triggeredAtSize = bodyLength
             /\ heap'[Appended[i]].triggeredAtScale
                  = scaleFactor(bodyLength, BaselineLength)
        /\ failureState'.newlyTriggeredFailures = Appended
    ]_vars

\* a call that listed two ids, one already active (no event appended) and
\* one not (event appended), at a size that differs from the scale
C3_Witness ==
  /\ called
  /\ Len(failureState.newlyTriggeredFailures) = 1
  /\ Cardinality(Range(currentFailureIds)) = 2
  /\ Len(failureHistory) = 2
  /\ bodyLength # scaleFactor(bodyLength, BaselineLength)
  /\ heap[failureState.newlyTriggeredFailures[1]].triggeredAtSize = bodyLength

\* ----------------------------------------------------------------- C4
\* C4: the history a call returns is the prior history, unchanged in content
\* and order, followed by the newlyTriggeredFailures of that call; the length
\* of the session's history never decreases.
C4_AppendOnly ==
  [][ /\ Len(failureHistory') >= Len(failureHistory)
      /\ CallStep =>
           /\ failureState'.failureHistory
                = failureHistory \o failureState'.newlyTriggeredFailures
           /\ failureHistory' = failureState'.failureHistory
    ]_vars

\* a call that appended an event to a history that was not empty
C4_Witness ==
  /\ called
  /\ failureState.newlyTriggeredFailures # <<>>
  /\ Len(failureState.failureHistory) > Len(failureState.newlyTriggeredFailures)

\* ----------------------------------------------------------------- C5
\* C5 as claimed: an id the catalog does not define is skipped; no event of
\* it is in the returned history, in newlyTriggeredFailures or in
\* activeFailures.
C5_CatalogMissSkipped ==
  called =>
    \A f \in Range(currentFailureIds) \ DOMAIN modes :
      \A r \in Range(failureState.failureHistory)
                 \cup Range(failureState.newlyTriggeredFailures)
                 \cup Range(failureState.activeFailures) :
        heap[r].failureId # f

\* C5 as amended: an id the catalog does not define is handled like any
\* other id. A call that lists it appends an event for it unless the prior
\* history holds an active one, and reports that event in
\* newlyTriggeredFailures; after the call activeFailures holds an event of
\* it; and every event of such an id is active, not resolved and not
\* irreversible, in every state.
C5_CatalogMissRecorded ==
  [][ /\ CallStep =>
           \A f \in Range(currentFailureIds') \ DOMAIN modes :
             /\ f \notin ActiveIdsIn(heap, failureHistory)
                  => \E r \in Range(failureState'.newlyTriggeredFailures) :
                       r \notin DOMAIN heap /\ heap'[r].failureId = f
             /\ \E r \in Range(failureState'.activeFailures) :
                  heap'[r].failureId = f
      /\ \A r \in DOMAIN heap' :
           heap'[r].failureId \notin DOMAIN modes
             => /\ heap'[r].isActive
                /\ ~heap'[r].isResolved
                /\ ~heap'[r].isIrreversible
    ]_vars

\* a call that listed the undefined id and was returned a new event for it
C5_Witness ==
  /\ called
  /\ UnknownId \in Range(currentFailureIds)
  /\ UnknownId \notin DOMAIN modes
  /\ \E r \in Range(failureState.newlyTriggeredFailures) :
       heap[r].failureId = UnknownId

\* ----------------------------------------------------------------- C6
\* C6: a call leaves the array it was given as it was: the events of the
\* prior history have after the call the isActive and isResolved they had
\* before it.
C6_PriorHistoryUntouched ==
  [][ CallStep =>
        \A i \in DOMAIN failureHistory :
          /\ heap'[failureHistory[i]].isActive = heap[failureHistory[i]].isActive
          /\ heap'[failureHistory[i]].isResolved = heap[failureHistory[i]].isResolved
    ]_vars

\* ----------------------------------------------------------------- C7
\* the place of a failure id in the subsystem order
RECURSIVE IndexOf(_, _)
IndexOf(seq, x) == IF seq[1] = x THEN 1 ELSE 1 + IndexOf(Tail(seq), x)

SubsystemRank(h, r) == IndexOf(Subsystems, modes[h[r].failureId].subsystem)

\* C7: the events one evaluation triggers are listed in
\* newlyTriggeredFailures, and stand at the end of the history, in the order
\* respiration, hydraulics, exoskeleton, locomotion.
C7_TriggerOrder ==
  called =>
    LET newly == failureState.newlyTriggeredFailures
    IN  /\ \A i, j \in DOMAIN newly :
             i < j => SubsystemRank(heap, newly[i]) < SubsystemRank(heap, newly[j])
        /\ Len(newly) <= Len(failureHistory)
        /\ SubSeq(failureHistory, Len(failureHistory) - Len(newly) + 1,
                  Len(failureHistory)) = newly

\* an evaluation in which all four failures triggered
C7_Witness ==
  /\ called
  /\ Len(failureState.newlyTriggeredFailures) = 4
  /\ Len(currentFailureIds) = 4

\* ----------------------------------------------------------------- C8
\* C8: a resolved event is never changed again; and a call that lists the id
\* of a soft mode whose events in the prior history are all resolved appends
\* a new, active event for it.
C8_SoftRetrigger ==
  [][ /\ \A r \in DOMAIN heap :
           heap[r].isResolved
             => r \in DOMAIN heap' /\ heap'[r] = heap[r] /\ ~heap'[r].isActive
      /\ CallStep =>
           \A r \in Range(failureHistory) :
             ( /\ heap[r].isResolved
               /\ SeverityOf(modes, heap[r].failureId) = "soft"
               /\ heap[r].failureId \in Range(currentFailureIds')
               /\ heap[r].failureId \notin ActiveIdsIn(heap, failureHistory) )
               => \E i \in DOMAIN Appended :
                    /\ Appended[i] \notin DOMAIN heap
                    /\ heap'[Appended[i]].failureId = heap[r].failureId
                    /\ heap'[Appended[i]].isActive
                    /\ ~heap'[Appended[i]].isResolved
    ]_vars

\* a soft failure that resolved and was triggered again: the resolved event
\* and, after it, the new active one
C8_Witness ==
  /\ called
  /\ \E i, j \in DOMAIN failureHistory :
       /\ i < j
       /\ heap[failureHistory[i]].failureId = heap[failureHistory[j]].failureId
       /\ heap[failureHistory[i]].isResolved
       /\ ~heap[failureHistory[i]].isActive
       /\ heap[failureHistory[j]].isActive
       /\ failureHistory[j] \in Range(failureState.newlyTriggeredFailures)

\* ----------------------------------------------------------------- C9
\* C9: no step changes the failureId, triggeredAtSize, triggeredAtScale,
\* timestamp or isIrreversible of an existing event.
C9_SnapshotFrozen ==
  [][ \A r \in DOMAIN heap :
        /\ r \in DOMAIN heap'
        /\ heap'[r].failureId = heap[r].failureId
        /\ heap'[r].triggeredAtSize = heap[r].triggeredAtSize
        /\ heap'[r].triggeredAtScale = heap[r].triggeredAtScale
        /\ heap'[r].timestamp = heap[r].timestamp
        /\ heap'[r].isIrreversible = heap[r].isIrreversible
    ]_vars

\* a later call, at another size and time and listing the id again, after
\* which the event still carries the size and time of its creation
C9_Witness ==
  /\ called
  /\ failureState.newlyTriggeredFailures = <<>>
  /\ \E r \in Range(failureHistory) :
       /\ heap[r].failureId \in Range(currentFailureIds)
       /\ heap[r].triggeredAtSize # bodyLength
       /\ heap[r].triggeredAtScale # scaleFactor(bodyLength, BaselineLength)
       /\ heap[r].timestamp # now

\* ----------------------------------------------------------------- C10
\* C10: an event is irreversible exactly when the catalog defines its
\* failureId with severity catastrophic.
C10_Irreversible ==
  \A r \in DOMAIN heap :
    heap[r].isIrreversible
      <=> /\ heap[r].failureId \in DOMAIN modes
          /\ modes[heap[r].failureId].severity = "catastrophic"

\* a history with a catastrophic event and a hard one
C10_Witness ==
  /\ \E r \in Range(failureHistory) :
       heap[r].isIrreversible /\ modes[heap[r].failureId].severity = "catastrophic"
  /\ \E r \in Range(failureHistory) :
       /\ heap[r].failureId \in DOMAIN modes
       /\ modes[heap[r].failureId].severity = "hard"
       /\ ~heap[r].isIrreversible

\* ============================================================ scaling model
\* Numbers of the scaling model.  A positive real (a length in metres, an
\* oxygen fraction, a gravity multiplier, a scale factor, a mass, a proxy of
\* computeModel) is held as its decimal logarithm, counted in millionths:
\* 1.0 is 0, 0.35 is -455932, 0.008 is -2096910.  Held this way a product is
\* a sum, a quotient a difference and Math.pow a product with the exponent;
\* a result is rounded to the nearest millionth where the source's
\* arithmetic rounds to the nearest double.  Exponents and weights are
\* counted in hundredths, the proxies handed to proxyToHealth and to
\* detectFailures in hundredths, health scores in millionths of a point.

\* quotient rounded to the nearest integer, for d > 0
DivRound(n, d) == (2 * n + d) \div (2 * d)

\* Math.pow(x, e) for an exponent e in hundredths
Pow(x, e) == DivRound(x * e, 100)

\* ------------------------------------------------------------ modelConfig
\* baselineLength: 0.008, 0.05 and 0.005 m
SPECIES_PRESETS ==
  << [name |-> "House Spider", baselineLength |-> -2096910],
     [name |-> "Tarantula", baselineLength |-> -1301030],
     [name |-> "Jumping Spider", baselineLength |-> -2301030] >>

\* 0.005 m to 3.0 m
SIZE_RANGE == [min |-> -2301030, max |-> 477121]

\* 0.21 and 1.0
ENV_DEFAULTS == [o2Fraction |-> -677781, gravityMultiplier |-> 0]

\* 0.10 to 0.35, and 0.1 to 2.0
ENV_RANGES ==
  [o2Fraction |-> [min |-> -1000000, max |-> -455932],
   gravityMultiplier |-> [min |-> -1000000, max |-> 301030]]

\* exponents and the diffusion penalty, in hundredths
SCALING_PARAMS ==
  [respirationDiffusionK |-> 15,
   hydraulicAlpha |-> 65,
   hydraulicBetaSimple |-> 0,
   hydraulicBetaExtended |-> 30,
   exoskeletonPSimple |-> 100,
   exoskeletonPExtended |-> 130,
   locomotionGammaSimple |-> 85,
   locomotionGammaExtended |-> 110]

\* proxies in hundredths; the sigmoid's steepness is the number 8
HEALTH_PARAMS ==
  [failureThreshold |-> 30,
   sigmoidCritical |-> 60,
   sigmoidSteepness |-> 8,
   proxyMin |-> 0,
   proxyMax |-> 120]

\* in hundredths
VIABILITY_WEIGHTS ==
  [respiration |-> 35, exoskeleton |-> 30, hydraulics |-> 20, locomotion |-> 15]

ModelModes == {"simple", "extended"}

\* ----------------------------------------------------------- calculations
\* clamp = Math.max(min, Math.min(max, value))
clamp(value, min, max) ==
  LET capped == IF max < value THEN max ELSE value
  IN  IF min > capped THEN min ELSE capped

\* decimal logarithms of 0.01, 0.02, ... 1.20
LOG10_HUNDREDTHS ==
  << -2000000, -1698970, -1522879, -1397940, -1301030, -1221849, -1154902, -1096910,
     -1045757, -1000000, -958607, -920819, -886057, -853872, -823909, -795880,
     -769551, -744727, -721246, -698970, -677781, -657577, -638272, -619789,
     -602060, -585027, -568636, -552842, -537602, -522879, -508638, -494850,
     -481486, -468521, -455932, -443697, -431798, -420216, -408935, -397940,
     -387216, -376751, -366532, -356547, -346787, -337242, -327902, -318759,
     -309804, -301030, -292430, -283997, -275724, -267606, -259637, -251812,
     -244125, -236572, -229148, -221849, -214670, -207608, -200659, -193820,
     -187087, -180456, -173925, -167491, -161151, -154902, -148742, -142668,
     -136677, -130768, -124939, -119186, -113509, -107905, -102373, -96910,
     -91515, -86186, -80922, -75721, -70581, -65502, -60481, -55517,
     -50610, -45757, -40959, -36212, -31517, -26872, -22276, -17729,
     -13228, -8774, -4365, 0, 4321, 8600, 12837, 17033,
     21189, 25306, 29384, 33424, 37426, 41393, 45323, 49218,
     53078, 56905, 60698, 64458, 68186, 71882, 75547, 79181 >>

\* A proxy of computeModel read in hundredths: the whole hundredths in it,
\* 120 for every proxy of 1.2 and above.  For a mark t of 1.2 or less the
\* proxy is below t exactly when this reading is, and the health mapping
\* clamps its proxy to 1.2.
Hundredths(x) == Cardinality({m \in DOMAIN LOG10_HUNDREDTHS : LOG10_HUNDREDTHS[m] <= x})

\* the literal 0.21 of baseCapacity
REFERENCE_O2 == -677781

\* decimal logarithm of 1 + 0.15 * (s - 1) where the logarithm of s is
\* -2.5, -2.4, ... 3.0
LOG10_DIFFUSION ==
  << -70339, -70276, -70197, -70098, -69973, -69815, -69617, -69368,
     -69055, -68660, -68164, -67541, -66757, -65772, -64536, -62984,
     -61038, -58601, -55552, -51744, -46997, -41094, -33775, -24732,
     -13609, 0, 16548, 36523, 60429, 88768, 122000, 160517,
     204603, 254412, 309948, 371068, 437495, 508845, 584658, 664438,
     747677, 833887, 922612, 1013442, 1106018, 1200029, 1295213, 1391348,
     1488254, 1585780, 1683805, 1782229, 1880974, 1979974, 2079178, 2178545 >>

\* 1 + respirationDiffusionK * (s - 1), the one sum of reals in the proxies:
\* read from LOG10_DIFFUSION, straight between two entries, for a scale
\* factor s from 10^-2.5 to below 10^3
DiffusionPenalty(s) ==
  LET j == (s + 2500000) \div 100000
      part == ((s + 2500000) % 100000) \div 100
      below == LOG10_DIFFUSION[j + 1]
      above == LOG10_DIFFUSION[j + 2]
  IN  below + ((above - below) * part) \div 1000

\* variant: the reference oxygen fraction is 0.20
calcRespirationProxySeaLevel(s, o2Fraction, mode) ==
  LET baseCapacity == (o2Fraction - (-698970)) + (0 - s)
  IN  IF mode = "simple" THEN baseCapacity
      ELSE baseCapacity + (0 - DiffusionPenalty(s))

calcRespirationProxy(s, o2Fraction, mode) ==
  LET baseCapacity == (o2Fraction - REFERENCE_O2) + (0 - s)
  IN  IF mode = "simple" THEN baseCapacity
      ELSE baseCapacity + (0 - DiffusionPenalty(s))

\* variant: the quotient is taken the other way round
calcHydraulicsProxyInverted(s, weightFactor, mode) ==
  LET beta == IF mode = "simple" THEN SCALING_PARAMS.hydraulicBetaSimple
                                 ELSE SCALING_PARAMS.hydraulicBetaExtended
      alpha == SCALING_PARAMS.hydraulicAlpha
  IN  Pow(weightFactor, alpha) - Pow(s, beta)

calcHydraulicsProxy(s, weightFactor, mode) ==
  LET beta == IF mode = "simple" THEN SCALING_PARAMS.hydraulicBetaSimple
                                 ELSE SCALING_PARAMS.hydraulicBetaExtended
      alpha == SCALING_PARAMS.hydraulicAlpha
  IN  Pow(s, beta) - Pow(weightFactor, alpha)

\* variant: the extended exponent in both modes
calcExoskeletonProxyExtendedOnly(s, gravityMultiplier, mode) ==
  0 - (Pow(s, SCALING_PARAMS.exoskeletonPExtended) + gravityMultiplier)

calcExoskeletonProxy(s, gravityMultiplier, mode) ==
  LET p == IF mode = "simple" THEN SCALING_PARAMS.exoskeletonPSimple
                              ELSE SCALING_PARAMS.exoskeletonPExtended
  IN  0 - (Pow(s, p) + gravityMultiplier)

calcLocomotionProxy(s, gravityMultiplier, mode) ==
  LET gamma == IF mode = "simple" THEN SCALING_PARAMS.locomotionGammaSimple
                                  ELSE SCALING_PARAMS.locomotionGammaExtended
  IN  0 - (Pow(s, gamma) + gravityMultiplier)

\* 100 * sigmoid(x, 8, 0.6) in millionths of a point, at x = 0, 0.1, ... 1.2
HEALTH_SIGMOID ==
  << 816257, 1798621, 3916572, 8317270, 16798161, 31002552, 50000000, 68997448,
     83201839, 91682730, 96083428, 98201379, 99183743 >>

\* 100 * sigmoid(x, sigmoidSteepness, sigmoidCritical) for x from 0 to 1.2 in
\* hundredths: read from HEALTH_SIGMOID, straight between two entries
sigmoid(x) ==
  IF x = HEALTH_PARAMS.proxyMax THEN HEALTH_SIGMOID[Len(HEALTH_SIGMOID)]
  ELSE LET below == HEALTH_SIGMOID[(x \div 10) + 1]
           above == HEALTH_SIGMOID[(x \div 10) + 2]
       IN  below + ((above - below) * (x % 10)) \div 10

\* variant: the normalized proxy is not clamped to [0, 1]
proxyToHealthUnclamped(proxy, mode) ==
  LET clampedProxy == clamp(proxy, HEALTH_PARAMS.proxyMin, HEALTH_PARAMS.proxyMax)
  IN  IF mode = "simple"
      THEN 100 * DivRound((clampedProxy - HEALTH_PARAMS.failureThreshold) * 1000000,
                          100 - HEALTH_PARAMS.failureThreshold)
      ELSE sigmoid(clampedProxy)

\* proxy in hundredths, health score in millionths of a point
proxyToHealth(proxy, mode) ==
  LET clampedProxy == clamp(proxy, HEALTH_PARAMS.proxyMin, HEALTH_PARAMS.proxyMax)
  IN  IF mode = "simple"
      THEN LET normalized ==
                 DivRound((clampedProxy - HEALTH_PARAMS.failureThreshold) * 1000000,
                          100 - HEALTH_PARAMS.failureThreshold)
           IN  100 * clamp(normalized, 0, 1000000)
      ELSE sigmoid(clampedProxy)

\* decimal logarithm of eps = 1e-6
LOG10_EPS == -6000000

\* health / 100 + eps for a health score in whole points, as a logarithm:
\* eps itself at 0, and above 0 the logarithm of health / 100 raised by
\* eps * log10(e) / (health / 100), which is 43.43 millionths over health
HealthFraction(health) ==
  IF health = 0 THEN LOG10_EPS
  ELSE LOG10_HUNDREDTHS[health] + DivRound(4343, 100 * health)

\* variant: the weights of respiration and hydraulics change places
calcViabilityIndexSwapped(health) ==
  LET weights == VIABILITY_WEIGHTS
      logSum == weights.hydraulics * HealthFraction(health.respiration)
                  + weights.exoskeleton * HealthFraction(health.exoskeleton)
                  + weights.respiration * HealthFraction(health.hydraulics)
                  + weights.locomotion * HealthFraction(health.locomotion)
  IN  200000000 + logSum

\* Health scores in whole points.  The sum of logarithms weighted in
\* hundredths is kept as it is, so the index is the one number held in
\* hundredths of millionths: 100 * Math.exp(logSum) is 200000000 + logSum.
calcViabilityIndex(health) ==
  LET weights == VIABILITY_WEIGHTS
      logSum == weights.respiration * HealthFraction(health.respiration)
                  + weights.exoskeleton * HealthFraction(health.exoskeleton)
                  + weights.hydraulics * HealthFraction(health.hydraulics)
                  + weights.locomotion * HealthFraction(health.locomotion)
  IN  200000000 + logSum

\* The scale factor, mass, surface area, proxies and health scores of a
\* ModelOutput; its viabilityIndex and failureModes are calcViabilityIndex
\* and the flags of the health scores and proxies given here.
computeModel(input) ==
  LET s == input.bodyLength - input.baselineLength
      mass == Pow(s, 300)
      surfaceArea == Pow(s, 200)
      weightFactor == mass + input.gravityMultiplier
      proxies ==
        [respiration |-> calcRespirationProxy(s, input.o2Fraction, input.mode),
         hydraulics |-> calcHydraulicsProxy(s, weightFactor, input.mode),
         exoskeleton |-> calcExoskeletonProxy(s, input.gravityMultiplier, input.mode),
         locomotion |-> calcLocomotionProxy(s, input.gravityMultiplier, input.mode)]
      health ==
        [respiration |-> proxyToHealth(Hundredths(proxies.respiration), input.mode),
         hydraulics |-> proxyToHealth(Hundredths(proxies.hydraulics), input.mode),
         exoskeleton |-> proxyToHealth(Hundredths(proxies.exoskeleton), input.mode),
         locomotion |-> proxyToHealth(Hundredths(proxies.locomotion), input.mode)]
  IN  [input |-> input, scaleFactor |-> s, mass |-> mass,
       surfaceArea |-> surfaceArea, proxies |-> proxies, health |-> health]

\* the proxies of a ModelOutput as detectFailures reads them
ProxiesInHundredths(proxies) == [k \in DOMAIN proxies |-> Hundredths(proxies[k])]

\* ---- the doubles of generateSizeArray: a finite number, NaN or an infinity
Finite(x) == [class |-> "finite", v |-> x]

NaN == [class |-> "NaN", v |-> 0]

Infinity(sign) == [class |-> "Infinity", v |-> sign]

\* a / n for a finite a and a whole n: x / 0 is an infinity, 0 / 0 is NaN
Divide(a, n) ==
  IF n # 0 THEN Finite(DivRound(a.v, n))
  ELSE IF a.v = 0 THEN NaN
  ELSE Infinity(IF a.v > 0 THEN 1 ELSE -1)

\* i * x for a whole i: 0 * Infinity is NaN
Times(i, x) ==
  CASE x.class = "finite" -> Finite(i * x.v)
    [] x.class = "NaN" -> NaN
    [] OTHER -> IF i = 0 THEN NaN ELSE x

\* a + x for a finite a
Plus(a, x) == IF x.class = "finite" THEN Finite(a.v + x.v) ELSE x

\* Math.log10 of a size: the number that holds it
Log10(size) == Finite(size)

\* Math.pow(10, x): the size whose logarithm is x; NaN for NaN, Infinity for
\* Infinity and 0 for -Infinity
Pow10(x) ==
  CASE x.class = "finite" -> x
    [] x.class = "NaN" -> NaN
    [] x.v > 0 -> x
    [] OTHER -> [class |-> "zero", v |-> 0]

\* variant: the step divides the span by count
generateSizeArrayOpenEnded(min, max, count) ==
  LET logMin == Log10(min)
      logMax == Log10(max)
      step == Divide(Finite(logMax.v - logMin.v), count)
  IN  [i \in 1..count |-> Pow10(Plus(logMin, Times(i - 1, step)))]

\* the array holds doubles; element i of the source is element i + 1 here
generateSizeArray(min, max, count) ==
  LET logMin == Log10(min)
      logMax == Log10(max)
      step == Divide(Finite(logMax.v - logMin.v), count - 1)
  IN  [i \in 1..count |-> Pow10(Plus(logMin, Times(i - 1, step)))]

\* sizes are finite doubles
computeModelArray(sizes, baselineLength, o2Fraction, gravityMultiplier, mode) ==
  [i \in DOMAIN sizes |->
     computeModel([bodyLength |-> sizes[i].v,
                   baselineLength |-> baselineLength,
                   o2Fraction |-> o2Fraction,
                   gravityMultiplier |-> gravityMultiplier,
                   mode |-> mode])]

\* ----------------------------------------------------------- failure points
\* the keys of FAILURE_MODES in the order Object.entries lists them
CatalogKeys ==
  << "OXYGEN_DIFFUSION_FAILURE", "HYDRAULIC_EXTENSION_FAILURE",
     "EXOSKELETON_BUCKLING_FAILURE", "LOCOMOTION_ENERGY_FAILURE" >>

\* the for loop of findFailurePoint from element i on: the first element whose
\* proxy is below the threshold, 0 when the loop runs out
RECURSIVE FirstBelow(_, _, _, _)
FirstBelow(modelOutputs, subsystem, threshold, i) ==
  IF i > Len(modelOutputs) THEN 0
  ELSE IF isProxyInFailure(Hundredths(modelOutputs[i].proxies[subsystem]), threshold)
       THEN i
       ELSE FirstBelow(modelOutputs, subsystem, threshold, i + 1)

\* variant: the scan runs from the largest size down
findFailurePointFromTop(modelOutputs, sizes, failureId) ==
  IF failureId \notin DOMAIN FAILURE_MODES THEN <<>>
  ELSE LET failureMode == FAILURE_MODES[failureId]
           below == {i \in DOMAIN modelOutputs :
                       isProxyInFailure(
                         Hundredths(modelOutputs[i].proxies[failureMode.subsystem]),
                         failureMode.proxyThreshold)}
       IN  IF below = {} THEN <<>>
           ELSE LET i == CHOOSE k \in below : \A l \in below : l <= k
                IN  <<[size |-> sizes[i], index |-> i - 1]>>

\* null is the empty sequence, a point a sequence of one
findFailurePoint(modelOutputs, sizes, failureId) ==
  IF failureId \notin DOMAIN FAILURE_MODES THEN <<>>
  ELSE LET failureMode == FAILURE_MODES[failureId]
           i == FirstBelow(modelOutputs, failureMode.subsystem,
                           failureMode.proxyThreshold, 1)
       IN  IF i = 0 THEN <<>>
           ELSE <<[size |-> sizes[i], index |-> i - 1]>>

\* the loop over Object.entries(FAILURE_MODES): one push per point found
RECURSIVE PushPoints(_, _, _)
PushPoints(keys, sizes, modelOutputs) ==
  IF keys = <<>> THEN <<>>
  ELSE LET failureId == Head(keys)
           point == findFailurePoint(modelOutputs, sizes, failureId)
           pushed == IF point = <<>> THEN <<>>
                     ELSE <<[failureId |-> failureId,
                             sizeAtFailure |-> point[1].size,
                             subsystem |-> FAILURE_MODES[failureId].subsystem,
                             severity |-> FAILURE_MODES[failureId].severity]>>
       IN  pushed \o PushPoints(Tail(keys), sizes, modelOutputs)

\* failurePoints.sort((a, b) => a.sizeAtFailure - b.sizeAtFailure), a stable
\* sort: a point goes behind the points that are not larger
RECURSIVE InsertBySize(_, _)
InsertBySize(sorted, point) ==
  IF sorted = <<>> THEN <<point>>
  ELSE IF point.sizeAtFailure.v - Head(sorted).sizeAtFailure.v < 0
       THEN <<point>> \o sorted
       ELSE <<Head(sorted)>> \o InsertBySize(Tail(sorted), point)

RECURSIVE SortBySize(_)
SortBySize(failurePoints) ==
  IF failurePoints = <<>> THEN <<>>
  ELSE InsertBySize(SortBySize(SubSeq(failurePoints, 1, Len(failurePoints) - 1)),
                    failurePoints[Len(failurePoints)])

\* variant: the points are returned in catalog order
getAllFailurePointsUnsorted(baselineLength, o2Fraction, gravityMultiplier, mode) ==
  LET sizes == generateSizeArray(SIZE_RANGE.min, SIZE_RANGE.max, 100)
      modelOutputs == computeModelArray(sizes, baselineLength, o2Fraction,
                                        gravityMultiplier, mode)
  IN  PushPoints(CatalogKeys, sizes, modelOutputs)

getAllFailurePoints(baselineLength, o2Fraction, gravityMultiplier, mode) ==
  LET sizes == generateSizeArray(SIZE_RANGE.min, SIZE_RANGE.max, 100)
      modelOutputs == computeModelArray(sizes, baselineLength, o2Fraction,
                                        gravityMultiplier, mode)
  IN  SortBySize(PushPoints(CatalogKeys, sizes, modelOutputs))

\* ------------------------------------------------------------------ inputs
\* lengths of 5 mm, 8 mm, 50 mm, 1 m and 3 m
ModelLengths == {SIZE_RANGE.min, -2096910, -1301030, 0, SIZE_RANGE.max}

\* the three presets and a baseline of 1 m
BaselineLengths == {SPECIES_PRESETS[i].baselineLength : i \in DOMAIN SPECIES_PRESETS} \cup {0}

\* both ends of the slider and its default
O2Fractions ==
  {ENV_RANGES.o2Fraction.min, ENV_DEFAULTS.o2Fraction, ENV_RANGES.o2Fraction.max}

GravityMultipliers ==
  {ENV_RANGES.gravityMultiplier.min, ENV_DEFAULTS.gravityMultiplier,
   ENV_RANGES.gravityMultiplier.max}

\* count of generateSizeArray: the degenerate count, the smallest sweeps and
\* the default
SweepCounts == {1, 2, 3, 100}

\* proxies handed to proxyToHealth, in hundredths: from -0.2 to 1.4
ProxyReadings == -20..140

\* health scores handed to calcViabilityIndex, in whole points
HealthReadings == {0, 50, 100}

\* a function and its arguments, not yet run
Pending(fn, args) == [fn |-> fn, args |-> args, done |-> FALSE, result |-> <<>>]

Applications ==
  {Pending("generateSizeArray", a) :
     a \in [min : ModelLengths, max : ModelLengths, count : SweepCounts]}
  \cup {Pending("computeModel", a) :
     a \in [bodyLength : ModelLengths, baselineLength : BaselineLengths,
            o2Fraction : O2Fractions, gravityMultiplier : GravityMultipliers,
            mode : ModelModes]}
  \cup {Pending("proxyToHealth", a) : a \in [proxy : ProxyReadings, mode : ModelModes]}
  \cup {Pending("calcViabilityIndex", a) :
     a \in [health : [Range(Subsystems) -> HealthReadings]]}
  \cup {Pending("getAllFailurePoints", a) :
     a \in [baselineLength : BaselineLengths, o2Fraction : O2Fractions,
            gravityMultiplier : GravityMultipliers, mode : ModelModes]}

\* ----------------------------------------------------------------- actions
\* the scaling model keeps no state: a behaviour is one function applied to
\* one choice of arguments, beside a session that has not started
InitModel ==
  /\ modes = FAILURE_MODES
  /\ heap = <<>>
  /\ failureHistory = <<>>
  /\ bodyLength = BaselineLength
  /\ now = 0
  /\ called = FALSE
  /\ currentFailureIds = <<>>
  /\ failureState = NoState
  /\ applied \in Applications
  /\ InitAppState

Return(result) ==
  /\ ~applied.done
  /\ applied' = [applied EXCEPT !.done = TRUE, !.result = result]
  /\ UNCHANGED <<modes, heap, failureHistory, bodyLength, now, called,
                 currentFailureIds, failureState>>
  /\ UNCHANGED appVars

GenerateSizeArray ==
  /\ applied.fn = "generateSizeArray"
  /\ Return(generateSizeArray(applied.args.min, applied.args.max, applied.args.count))

ComputeModel ==
  /\ applied.fn = "computeModel"
  /\ Return(computeModel(applied.args))

ProxyToHealth ==
  /\ applied.fn = "proxyToHealth"
  /\ Return(proxyToHealth(applied.args.proxy, applied.args.mode))

CalcViabilityIndex ==
  /\ applied.fn = "calcViabilityIndex"
  /\ Return(calcViabilityIndex(applied.args.health))

GetAllFailurePoints ==
  /\ applied.fn = "getAllFailurePoints"
  /\ Return(getAllFailurePoints(applied.args.baselineLength, applied.args.o2Fraction,
                                applied.args.gravityMultiplier, applied.args.mode))

NextModel ==
  \/ GenerateSizeArray
  \/ ComputeModel
  \/ ProxyToHealth
  \/ CalcViabilityIndex
  \/ GetAllFailurePoints

SpecModel == InitModel /\ [][NextModel]_vars

\* ------------------------------------------------------- claim vocabulary
\* the function fn has been applied: applied.args and applied.result are its
\* arguments and what it returned
Returned(fn) == applied.fn = fn /\ applied.done

\* the arguments of getAllFailurePoints are the defaults: the house spider's
\* baseline of 0.008 m, o2Fraction 0.21, gravityMultiplier 1.0, mode simple
DefaultSweep ==
  /\ Returned("getAllFailurePoints")
  /\ applied.args.baselineLength = SPECIES_PRESETS[1].baselineLength
  /\ applied.args.o2Fraction = ENV_DEFAULTS.o2Fraction
  /\ applied.args.gravityMultiplier = ENV_DEFAULTS.gravityMultiplier
  /\ applied.args.mode = "simple"

\* the positions in the returned list of the points of a subsystem
PointsOf(subsystem) ==
  {i \in DOMAIN applied.result : applied.result[i].subsystem = subsystem}

\* ----------------------------------------------------------------- C11
\* C11 as stated: under the default parameters getAllFailurePoints returns a
\* respiration point whose sizeAtFailure is strictly smaller than that of the
\* exoskeleton point.
C11_RespirationBeforeExoskeleton ==
  DefaultSweep =>
    \E i \in PointsOf("respiration") : \E j \in PointsOf("exoskeleton") :
      applied.result[i].sizeAtFailure.v < applied.result[j].sizeAtFailure.v

\* C11 as the code has it: under the default parameters getAllFailurePoints
\* returns a respiration point and an exoskeleton point, and the two have the
\* same sizeAtFailure.
C11_RespirationWithExoskeleton ==
  DefaultSweep =>
    /\ PointsOf("respiration") # {}
    /\ PointsOf("exoskeleton") # {}
    /\ \A i \in PointsOf("respiration") : \A j \in PointsOf("exoskeleton") :
         applied.result[i].sizeAtFailure = applied.result[j].sizeAtFailure

\* the default sweep has returned all four points
C11_Witness == DefaultSweep /\ Len(applied.result) = Len(CatalogKeys)

\* ----------------------------------------------------------------- C12
\* C12: whatever the baselineLength, o2Fraction, gravityMultiplier and mode,
\* the points getAllFailurePoints returns are in non-decreasing order of
\* sizeAtFailure, and no catalog entry has more than one point among them.
C12_SortedOnePerEntry ==
  Returned("getAllFailurePoints") =>
    /\ \A i, j \in DOMAIN applied.result :
         i < j => applied.result[i].sizeAtFailure.v <= applied.result[j].sizeAtFailure.v
    /\ \A i, j \in DOMAIN applied.result :
         applied.result[i].failureId = applied.result[j].failureId => i = j
    /\ \A i \in DOMAIN applied.result : applied.result[i].failureId \in CatalogIds

\* four points came back, and not in the order of the catalog: the sort moved
\* the hydraulics point in front of the respiration point
C12_Witness ==
  /\ Returned("getAllFailurePoints")
  /\ Len(applied.result) = Len(CatalogKeys)
  /\ \E i \in PointsOf("hydraulics") : \E j \in PointsOf("respiration") :
       /\ i < j
       /\ applied.result[i].sizeAtFailure.v < applied.result[j].sizeAtFailure.v

\* ----------------------------------------------------------------- C13
\* the sweep of getAllFailurePoints
SweptSizes == generateSizeArray(SIZE_RANGE.min, SIZE_RANGE.max, 100)

\* the proxy of a subsystem at position i of the sweep, for the arguments
\* getAllFailurePoints was given
SweptProxy(i, subsystem) ==
  computeModel([bodyLength |-> SweptSizes[i].v,
                baselineLength |-> applied.args.baselineLength,
                o2Fraction |-> applied.args.o2Fraction,
                gravityMultiplier |-> applied.args.gravityMultiplier,
                mode |-> applied.args.mode]).proxies[subsystem]

\* the sweep positions at which the proxy of a catalog entry's subsystem is
\* strictly below the entry's proxyThreshold
Crossed(failureId) ==
  {i \in DOMAIN SweptSizes :
     Hundredths(SweptProxy(i, FAILURE_MODES[failureId].subsystem))
       < FAILURE_MODES[failureId].proxyThreshold}

\* C13: for each catalog entry, the result of getAllFailurePoints holds the
\* size at the smallest sweep index whose proxy is strictly below the entry's
\* threshold (at every earlier index the proxy is at or above it), and holds
\* no point of the entry exactly when no swept size has its proxy below the
\* threshold.
C13_FirstCrossing ==
  Returned("getAllFailurePoints") =>
    \A failureId \in CatalogIds :
      LET points == {i \in DOMAIN applied.result :
                       applied.result[i].failureId = failureId}
          crossed == Crossed(failureId)
      IN  /\ (points = {}) <=> (crossed = {})
          /\ \A i \in points :
               \E first \in crossed :
                 /\ \A k \in crossed : first <= k
                 /\ applied.result[i].sizeAtFailure = SweptSizes[first]

\* a sweep in which one entry crosses before the end, so that later positions
\* are below the threshold too, and another entry never crosses
C13_Witness ==
  /\ Returned("getAllFailurePoints")
  /\ \E failureId \in CatalogIds : Crossed(failureId) = {}
  /\ \E failureId \in CatalogIds :
       /\ Cardinality(Crossed(failureId)) > 1
       /\ \E i \in DOMAIN applied.result : applied.result[i].failureId = failureId

\* ----------------------------------------------------------------- C14
\* C14 as stated: generateSizeArray(min, max, 1) returns the one-element
\* sequence [min].
C14_SingleElementIsMin ==
  (Returned("generateSizeArray") /\ applied.args.count = 1)
    => applied.result = <<Finite(applied.args.min)>>

\* ----------------------------------------------------------------- C15
\* the rounding of the step, carried to the last of count elements
SweepTolerance(count) == count \div 2

\* C15: for count >= 2 and 0 < min < max (generateSizeArray(0.005, 3.0, 100)
\* among them) the result has exactly count elements, all finite, is strictly
\* increasing, begins at min and ends at max within the tolerance of the
\* arithmetic, and so spans [min, max] with both ends.
C15_LogSpacedSweep ==
  (/\ Returned("generateSizeArray")
   /\ applied.args.count >= 2
   /\ applied.args.min < applied.args.max)
    => LET sizes == applied.result
           count == applied.args.count
           tolerance == SweepTolerance(count)
       IN  /\ Len(sizes) = count
           /\ \A i \in 1..count : sizes[i].class = "finite"
           /\ \A i \in 1..(count - 1) : sizes[i].v < sizes[i + 1].v
           /\ sizes[1].v - applied.args.min \in (0 - tolerance)..tolerance
           /\ sizes[count].v - applied.args.max \in (0 - tolerance)..tolerance

\* generateSizeArray(0.005, 3.0, 100) has returned
C15_Witness ==
  /\ Returned("generateSizeArray")
  /\ applied.args = [min |-> SIZE_RANGE.min, max |-> SIZE_RANGE.max, count |-> 100]
  /\ Len(applied.result) = 100

\* ----------------------------------------------------------------- C16
\* C16: in simple mode proxyToHealth returns a health score from 0 to 100
\* for every proxy; exactly 0 for every proxy of 0.3 or less, negative ones
\* included, and exactly 100 for every proxy of 1.0 or more, those above the
\* clamp at 1.2 included.
C16_HealthClamped ==
  (Returned("proxyToHealth") /\ applied.args.mode = "simple")
    => /\ applied.result \in 0..100000000
       /\ applied.args.proxy <= 30 => applied.result = 0
       /\ applied.args.proxy >= 100 => applied.result = 100000000

\* a proxy above the clamp at 1.2 was mapped in simple mode
C16_Witness ==
  /\ Returned("proxyToHealth")
  /\ applied.args.mode = "simple"
  /\ applied.args.proxy > HEALTH_PARAMS.proxyMax
  /\ applied.result = 100000000

\* ----------------------------------------------------------------- C17
\* computeModel was given bodyLength = baselineLength, o2Fraction = 0.21 and
\* gravityMultiplier = 1.0
AtBaseline ==
  /\ Returned("computeModel")
  /\ applied.args.bodyLength = applied.args.baselineLength
  /\ applied.args.o2Fraction = ENV_DEFAULTS.o2Fraction
  /\ applied.args.gravityMultiplier = ENV_DEFAULTS.gravityMultiplier

\* C17: at bodyLength = baselineLength, o2Fraction = 0.21 and
\* gravityMultiplier = 1.0, for every baseline and both modes, computeModel
\* gives scaleFactor 1, mass 1, surfaceArea 1 and all four proxies exactly 1.0
\* (the logarithm 0), and detectFailures on these proxies returns no id.
C17_ScaleInvariance ==
  AtBaseline =>
    /\ applied.result.scaleFactor = 0
    /\ applied.result.mass = 0
    /\ applied.result.surfaceArea = 0
    /\ \A subsystem \in Range(Subsystems) : applied.result.proxies[subsystem] = 0
    /\ detectFailures(ProxiesInHundredths(applied.result.proxies)) = <<>>

\* the extended model evaluated at the baseline of the tarantula
C17_Witness ==
  /\ AtBaseline
  /\ applied.args.mode = "extended"
  /\ applied.args.baselineLength = SPECIES_PRESETS[2].baselineLength
  /\ applied.result.scaleFactor = 0

\* ----------------------------------------------------------------- C18
\* the proxies computeModel gives for the arguments it was given, at another
\* body length
ProxiesAt(bodyLength2) ==
  computeModel([applied.args EXCEPT !.bodyLength = bodyLength2]).proxies

\* C18: with baselineLength, o2Fraction, gravityMultiplier and mode held
\* fixed, every larger bodyLength between 5 mm and 3 m gives strictly smaller
\* hydraulics, exoskeleton and locomotion proxies and a smaller respiration
\* proxy, in simple and in extended mode.
C18_Monotone ==
  Returned("computeModel") =>
    \A larger \in ModelLengths :
      larger > applied.args.bodyLength =>
        /\ ProxiesAt(larger).hydraulics < applied.result.proxies.hydraulics
        /\ ProxiesAt(larger).exoskeleton < applied.result.proxies.exoskeleton
        /\ ProxiesAt(larger).locomotion < applied.result.proxies.locomotion
        /\ ProxiesAt(larger).respiration < applied.result.proxies.respiration

\* the extended model evaluated at 5 mm, with 3 m to compare with
C18_Witness ==
  /\ Returned("computeModel")
  /\ applied.args.mode = "extended"
  /\ applied.args.bodyLength = SIZE_RANGE.min
  /\ SIZE_RANGE.max \in ModelLengths
  /\ ProxiesAt(SIZE_RANGE.max).hydraulics < applied.result.proxies.hydraulics

\* ----------------------------------------------------------------- C19
\* C19: the catalog a session runs with is FAILURE_MODES, which has exactly
\* four entries, exactly one for each of the four subsystems; the id of each
\* entry is its key, its severity is soft, hard or catastrophic and its
\* proxyThreshold lies strictly between 0 and 1.
C19_CatalogShape ==
  /\ modes = FAILURE_MODES
  /\ Cardinality(DOMAIN modes) = 4
  /\ \A subsystem \in Range(Subsystems) :
       Cardinality({key \in DOMAIN modes : modes[key].subsystem = subsystem}) = 1
  /\ \A key \in DOMAIN modes :
       /\ modes[key].id = key
       /\ modes[key].severity \in FailureSeverity
       /\ modes[key].proxyThreshold > 0
       /\ modes[key].proxyThreshold < 100

\* a session in which every entry of the catalog has triggered: the history
\* holds an event of each subsystem
C19_Witness ==
  /\ called
  /\ \A subsystem \in Range(Subsystems) :
       \E r \in Range(failureHistory) :
         modes[heap[r].failureId].subsystem = subsystem

\* ----------------------------------------------------------------- C20
\* the logarithm of the viability index when the health score of one
\* subsystem is changed
ViabilityWith(subsystem, health) ==
  calcViabilityIndex([applied.args.health EXCEPT ![subsystem] = health])

LegacyFlag(subsystem) ==
  \E i \in DOMAIN modelOutput.failureModes :
    /\ modelOutput.failureModes[i].key = subsystem
    /\ modelOutput.failureModes[i].active

\* C21: the legacy flags of computeModel depend on the current input alone:
\* whatever the failure history holds, the flag of a subsystem is up exactly
\* when the current proxy of that subsystem is below its threshold; so the
\* flag of a latched failure goes down when the proxy recovers while the
\* event in the history stays active.
C21_LegacyFlagsHistoryFree ==
  \A subsystem \in Range(Subsystems) :
    LegacyFlag(subsystem)
      <=> modelOutput.proxies[subsystem] < FAILURE_THRESHOLDS[subsystem]

\* a latched failure whose proxy has recovered: its event is active, the
\* flag of its subsystem is down
C21_Witness ==
  /\ modes = FAILURE_MODES
  /\ ~effectDue
  /\ \E r \in Range(failureHistory) :
       /\ heap[r].isActive
       /\ SeverityOf(modes, heap[r].failureId) \in Latching
       /\ modelOutput.proxies[modes[heap[r].failureId].subsystem]
            >= FAILURE_THRESHOLDS[modes[heap[r].failureId].subsystem]
       /\ ~LegacyFlag(modes[heap[r].failureId].subsystem)

\* ------------------------------------------------------------ C22 .. C25
\* C22: in every history reached from the empty one by evaluations whose ids
\* come from detectFailures, no two events of the same failure id are both
\* active.
C22_OneActivePerId ==
  \A i \in DOMAIN failureHistory : \A j \in DOMAIN failureHistory :
    (/\ i # j
     /\ heap[failureHistory[i]].isActive
     /\ heap[failureHistory[j]].isActive)
      => heap[failureHistory[i]].failureId # heap[failureHistory[j]].failureId

\* an evaluation that detected failures, all of them active already, and
\* added nothing
C22_Witness ==
  /\ called
  /\ currentFailureIds # <<>>
  /\ failureState.newlyTriggeredFailures = <<>>
  /\ Range(currentFailureIds) \subseteq ActiveIdsIn(heap, failureHistory)

\* C23: every event of every reachable history has exactly one of isActive
\* and isResolved set.
C23_StatusExclusive ==
  \A r \in Range(failureHistory) : heap[r].isActive # heap[r].isResolved

\* a history with a resolved event and an active one
C23_Witness ==
  /\ \E r \in Range(failureHistory) : heap[r].isResolved /\ ~heap[r].isActive
  /\ \E r \in Range(failureHistory) : heap[r].isActive /\ ~heap[r].isResolved

\* failureHistory.filter(f => f.isActive), the list App hands to the schematic
activeFailures(h, history) == SelectSeq(history, LAMBDA r : h[r].isActive)

\* C24: an irreversible event is an active one, so the activeFailures that
\* computeFailureState returns (isActive or isIrreversible) is the history
\* filtered on isActive alone.
C24_IrreversibleActive ==
  /\ \A r \in Range(failureHistory) : heap[r].isIrreversible => heap[r].isActive
  /\ called => failureState.activeFailures = activeFailures(heap, failureHistory)

\* a history with an irreversible event and a resolved one, so that the
\* filter drops something
C24_Witness ==
  /\ called
  /\ \E r \in Range(failureHistory) : heap[r].isIrreversible
  /\ \E r \in Range(failureHistory) : heap[r].isResolved
  /\ Len(failureState.activeFailures) < Len(failureHistory)

\* computeFailureState applied once more, with the ids of the last call, to
\* the history that call returned
Again ==
  computeFailureState(modes, heap, currentFailureIds, failureHistory, bodyLength,
                      scaleFactor(bodyLength, BaselineLength), now)

\* C25: computeFailureState applied again, with the same ids, to the history
\* it returned triggers nothing and returns a history of the same length
\* whose events have the isActive and isResolved they had.
C25_Idempotent ==
  called =>
    LET again == Again
    IN  /\ again.newlyTriggeredFailures = <<>>
        /\ Len(again.failureHistory) = Len(failureHistory)
        /\ \A i \in DOMAIN failureHistory :
             /\ again.heap[again.failureHistory[i]].isActive
                  = heap[failureHistory[i]].isActive
             /\ again.heap[again.failureHistory[i]].isResolved
                  = heap[failureHistory[i]].isResolved

\* the history returned by a call that triggered a failure, holding a
\* resolved event next to the new one
C25_Witness ==
  /\ called
  /\ failureState.newlyTriggeredFailures # <<>>
  /\ \E r \in Range(failureHistory) : heap[r].isResolved
  /\ currentFailureIds # <<>>

\* ------------------------------------------------------------------- C26
\* C26: after a parameter change the failure-detection effect calls
\* setFailureHistory at most once, and the run that this update schedules
\* finds nothing to update, so the effect comes to rest: the number of
\* updates since the last parameter change never exceeds one, and a
\* scheduled effect is always followed by a state in which none is scheduled.
C26_EffectStabilises ==
  /\ [](updates <= 1)
  /\ effectDue ~> ~effectDue

\* the effect at rest after the one update that followed a parameter change
C26_Witness ==
  /\ ~effectDue
  /\ updates = 1
  /\ failureState.newlyTriggeredFailures = <<>>
  /\ failureHistory # <<>>

\* ------------------------------------------------------------------- C27
\* the events of the history that carry the failure id
EventsOf(failureId) ==
  {i \in DOMAIN failureHistory : heap[failureHistory[i]].failureId = failureId}

\* C27: with the shipped catalog and ids from detectFailures every failure
\* fires once per session: the history holds at most one event per failure
\* id and so at most four events, none of them resolved, and an evaluation
\* reports in newlyTriggeredFailures only ids that have no event in the
\* history yet, each once, so that no id is ever reported twice.
C27_FiresOncePerSession ==
  /\ [](/\ \A failureId \in CatalogIds : Cardinality(EventsOf(failureId)) <= 1
        /\ Len(failureHistory) <= 4
        /\ \A r \in Range(failureHistory) : ~heap[r].isResolved)
  /\ [][CallStep =>
          LET newly == failureState'.newlyTriggeredFailures
          IN  /\ \A i \in DOMAIN newly : EventsOf(heap'[newly[i]].failureId) = {}
              /\ \A i \in DOMAIN newly : \A j \in DOMAIN newly :
                   i # j => heap'[newly[i]].failureId # heap'[newly[j]].failureId
              /\ Range(newly) \subseteq Range(failureHistory')]_vars

\* all four failures have fired, in two evaluations or more, and every proxy
\* has recovered since
C27_Witness ==
  /\ called
  /\ Len(failureHistory) = 4
  /\ currentFailureIds = <<>>
  /\ \A r \in Range(failureHistory) : heap[r].isActive
  /\ \E i \in DOMAIN failureHistory : \E j \in DOMAIN failureHistory :
       heap[failureHistory[i]].triggeredAtSize # heap[failureHistory[j]].triggeredAtSize

\* ------------------------------------------------------------------- C28
\* C28: a single call of computeFailureState appends at most one event for
\* any failure id, whatever the list currentFailureIds, lists that hold the
\* same id more than once included.
C28_OneEventPerIdPerCall ==
  [][CallStep =>
       \A i \in DOMAIN Appended : \A j \in DOMAIN Appended :
         i # j => heap'[Appended[i]].failureId # heap'[Appended[j]].failureId]_vars

\* ------------------------------------------------------------------- C29
\* C29: the two detection paths agree on every proxies value: the legacy
\* flag of a subsystem is up if and only if detectFailures returns the id of
\* the catalog entry of that subsystem; a proxy at exactly 0.35 is a failure
\* for neither.
C29_DetectionPathsAgree ==
  \A failureId \in CatalogIds :
    LegacyFlag(modes[failureId].subsystem)
      <=> failureId \in Range(detectFailures(modelOutput.proxies))

\* proxies of which one is exactly at the threshold and one below it: one
\* flag, one id
C29_Witness ==
  /\ called
  /\ ~effectDue
  /\ modelOutput.proxies.respiration = 35
  /\ modelOutput.proxies.hydraulics = 34
  /\ modelOutput.proxies.exoskeleton = 35
  /\ modelOutput.proxies.locomotion = 35
  /\ currentFailureIds = <<"HYDRAULIC_EXTENSION_FAILURE">>
  /\ LegacyFlag("hydraulics") /\ ~LegacyFlag("respiration")

\* ------------------------------------------------------------------- C30
\* C30: a run of the effect that newly triggers failures opens the modal for
\* the first of them if and only if the id of that first one is not
\* suppressed; when it is suppressed the run opens no modal, whatever the
\* later newly triggered failures are; and the history is updated either way.
C30_ModalSelection ==
  [][(effectDue /\ failureState'.newlyTriggeredFailures # <<>>) =>
       LET first == failureState'.newlyTriggeredFailures[1]
           shown == heap'[first].failureId \notin suppressedFailures
       IN  /\ shown <=> selectedFailure' = first
           /\ ~shown => selectedFailure' = selectedFailure
           /\ failureHistory' = failureState'.failureHistory
           /\ Len(failureHistory') > Len(failureHistory)]_vars

\* a run that newly triggered a suppressed failure and, after it, one that
\* is not suppressed: no modal, and both events in the history
C30_Witness ==
  /\ Len(failureState.newlyTriggeredFailures) >= 2
  /\ heap[failureState.newlyTriggeredFailures[1]].failureId \in suppressedFailures
  /\ heap[failureState.newlyTriggeredFailures[2]].failureId \notin suppressedFailures
  /\ selectedFailure = Null
  /\ Range(failureState.newlyTriggeredFailures) \subseteq Range(failureHistory)

====
